---- MODULE Spec2Model ----
(***************************************************************************)
(* Model of donferd/netmonitor, cmd/netmonitor/main.go: the Monitor with   *)
(* its map of PingStats, the single sync.RWMutex m.mu, one monitorHost     *)
(* goroutine per element of the host list, and GetStats readers.           *)
(*                                                                         *)
(* float64 values are modelled as exact rationals <<num, den>> (den > 0,   *)
(* lowest terms); IEEE-754 rounding is not modelled.                       *)
(***************************************************************************)
EXTENDS Integers, Sequences, FiniteSets, TLC

\* ------------------------------------------------------------- bounds
\* The ticker fires at most MaxTime times in total (the clock is capped).
MaxTime == 3

\* Round-trip times in milliseconds that a successful ping may return.
RTTs == {0, 40, 60}

\* Host lists given with -hosts (main splits the flag at commas).
HostLists == {<<"a">>, <<"a", "b">>, <<"a", "a">>}

\* Concurrent HTTP requests for /api/stats.
Readers == {"r1"}

\* ------------------------------------------------------------- float64
RECURSIVE GCD(_, _)
GCD(a, b) == IF b = 0 THEN a ELSE GCD(b, a % b)

Abs(n) == IF n < 0 THEN -n ELSE n

\* The element of a one-element set.
Only(S) == CHOOSE v \in S : TRUE

Norm(n, d) ==
    Only({<<n \div g, d \div g>> : g \in {GCD(Abs(n), d)}})

F(n) == <<n, 1>>

FAdd(x, y) ==
    Only({Norm(a[1] * b[2] + b[1] * a[2], a[2] * b[2]) : a \in {x}, b \in {y}})

FSub(x, y) ==
    Only({Norm(a[1] * b[2] - b[1] * a[2], a[2] * b[2]) : a \in {x}, b \in {y}})

FMul(x, y) ==
    Only({Norm(a[1] * b[1], a[2] * b[2]) : a \in {x}, b \in {y}})

\* x / y for y # 0
FDiv(x, y) ==
    Only({IF b[1] < 0 THEN Norm(-(a[1] * b[2]), a[2] * (-b[1]))
          ELSE Norm(a[1] * b[2], a[2] * b[1]) : a \in {x}, b \in {y}})

FLt(x, y) == x[1] * y[2] < y[1] * x[2]

FLe(x, y) == x[1] * y[2] <= y[1] * x[2]

FNeg(x) == <<-x[1], x[2]>>

\* ------------------------------------------------------------- state
VARIABLES
    hosts,        \* m.hosts: the configured list
    stats,        \* m.stats: host -> PingStats
    writer,       \* m.mu: the task holding the write lock, 0 if none
    readers,      \* m.mu: the readers holding the read lock
    started,      \* Start has run
    now,          \* the clock read by time.Now(); 0 is the zero time
    pc,           \* position of each monitorHost goroutine
    latency,      \* monitorHost local: latency returned by ping
    err,          \* monitorHost local: err returned by ping (TRUE = non-nil)
    lastLatency,  \* monitorHost local: lastLatency
    replyFrom,    \* ping: the sender of the packet conn.ReadFrom returned, "" if none
                  \* (kept until the task goes on to apply the outcome)
    rpc,          \* position of each GetStats call
    todo,         \* GetStats: map entries the range loop has yet to visit
    result,       \* GetStats: result slice
    committed,    \* history: each host's record when the write lock was last free
    log           \* history: per host, the outcomes applied so far, in order

vars == <<hosts, stats, writer, readers, started, now, pc, latency, err,
          lastLatency, replyFrom, rpc, todo, result, committed, log>>

Tasks == DOMAIN hosts

Range(s) == {s[i] : i \in DOMAIN s}

\* ------------------------------------------------------------- NewMonitor
NewStats(host) ==
    [Host |-> host, Status |-> "unknown", LastSeen |-> 0,
     PacketsSent |-> 0, PacketsRecv |-> 0, PacketLoss |-> F(0),
     AvgLatency |-> F(0), MinLatency |-> F(-1), MaxLatency |-> F(-1),
     CurrentLatency |-> F(0), Jitter |-> F(0)]

NewMonitor(hs) == [h \in Range(hs) |-> NewStats(h)]

Init ==
    /\ hosts \in HostLists
    /\ stats = NewMonitor(hosts)
    /\ writer = 0
    /\ readers = {}
    /\ started = FALSE
    /\ now = 1
    /\ pc = [t \in DOMAIN hosts |-> "off"]
    /\ latency = [t \in DOMAIN hosts |-> F(0)]
    /\ err = [t \in DOMAIN hosts |-> FALSE]
    /\ lastLatency = [t \in DOMAIN hosts |-> F(0)]
    /\ replyFrom = [t \in DOMAIN hosts |-> ""]
    /\ rpc = [r \in Readers |-> "idle"]
    /\ todo = [r \in Readers |-> {}]
    /\ result = [r \in Readers |-> <<>>]
    /\ committed = stats
    /\ log = [h \in Range(hosts) |-> <<>>]

\* ------------------------------------------------------------- Start
Start ==
    /\ ~started
    /\ started' = TRUE
    /\ pc' = [t \in Tasks |-> "tick"]
    /\ UNCHANGED <<hosts, stats, writer, readers, now, latency, err,
                   lastLatency, replyFrom, rpc, todo, result, committed, log>>

\* ------------------------------------------------------------- monitorHost
\* for range ticker.C: the next tick arrives.
Tick(t) ==
    /\ pc[t] = "tick"
    /\ now < MaxTime + 1
    /\ now' = now + 1
    /\ pc' = [pc EXCEPT ![t] = "ping"]
    /\ UNCHANGED <<hosts, stats, writer, readers, started, latency, err,
                   lastLatency, replyFrom, rpc, todo, result, committed, log>>

\* m.ping up to conn.WriteTo: resolving the host, opening the raw ICMP
\* socket, marshalling or sending may fail, and ping returns (0, err);
\* otherwise the echo request (ID 1, Seq 1) is on its way.
Ping(t) ==
    /\ pc[t] = "ping"
    /\ replyFrom' = [replyFrom EXCEPT ![t] = ""]
    /\ \/ /\ err' = [err EXCEPT ![t] = TRUE]
          /\ latency' = [latency EXCEPT ![t] = F(0)]
          /\ pc' = [pc EXCEPT ![t] = "lock"]
       \/ /\ pc' = [pc EXCEPT ![t] = "wait"]
          /\ UNCHANGED <<err, latency>>
    /\ UNCHANGED <<hosts, stats, writer, readers, started, now,
                   lastLatency, rpc, todo, result, committed, log>>

\* The hosts an ICMP packet can come from: those with an echo request
\* outstanding. The socket is a raw one on 0.0.0.0, which is handed every
\* ICMP packet the machine receives.
Repliers == {hosts[u] : u \in {v \in Tasks : pc[v] = "wait"}}

\* What ping requires of the packet read before it reports success: the
\* bytes are not parsed and the peer address is dropped.
Accepts(t, h) == TRUE

\* conn.ReadFrom(reply): a packet arrives and ping returns the elapsed
\* milliseconds, or the 3 s deadline (or a read error) ends it with an error.
ReadFromIn(t, rtts) ==
    /\ pc[t] = "wait"
    /\ \/ \E h \in Repliers : \E rtt \in rtts :
            /\ Accepts(t, h)
            /\ replyFrom' = [replyFrom EXCEPT ![t] = h]
            /\ err' = [err EXCEPT ![t] = FALSE]
            /\ latency' = [latency EXCEPT ![t] = F(rtt)]
       \/ /\ err' = [err EXCEPT ![t] = TRUE]
          /\ latency' = [latency EXCEPT ![t] = F(0)]
          /\ UNCHANGED replyFrom
    /\ pc' = [pc EXCEPT ![t] = "lock"]
    /\ UNCHANGED <<hosts, stats, writer, readers, started, now,
                   lastLatency, rpc, todo, result, committed, log>>

ReadFrom(t) == ReadFromIn(t, RTTs)

\* Mutant of CanLock: a writer does not wait for another writer.
CanLockIgnoresWriter == readers = {}

\* Mutant of CanLock: a writer does not wait for the readers.
CanLockIgnoresReaders == writer = 0

\* m.mu.Lock()
CanLock == writer = 0 /\ readers = {}

Lock(t) ==
    /\ pc[t] = "lock"
    /\ CanLock
    /\ writer' = t
    /\ pc' = [pc EXCEPT ![t] = "sent"]
    /\ replyFrom' = [replyFrom EXCEPT ![t] = ""]
    /\ UNCHANGED <<hosts, stats, readers, started, now, latency, err,
                   lastLatency, rpc, todo, result, committed, log>>

\* Mutant of Entry: every task sees the last host of the list (the loop
\* variable shared by the goroutines).
EntryOfLastHost(t) == hosts[Len(hosts)]

\* stats := m.stats[host]: the map entry task t writes
Entry(t) == hosts[t]

\* Mutant of IncSent: the increment is left out.
IncSentMissing(s) == s

\* stats := m.stats[host]; stats.PacketsSent++
IncSent(s) == [s EXCEPT !.PacketsSent = @ + 1]

Sent(t) ==
    /\ pc[t] = "sent"
    /\ stats' = [stats EXCEPT ![Entry(t)] = IncSent(@)]
    /\ pc' = [pc EXCEPT ![t] = "update"]
    /\ UNCHANGED <<hosts, writer, readers, started, now, latency, err,
                   lastLatency, replyFrom, rpc, todo, result, committed, log>>

\* Mutant of ApplyFailure: the current latency is cleared while the host is down.
ApplyFailureClearsLatency(s) == [s EXCEPT !.Status = "down", !.CurrentLatency = F(0)]

\* err != nil
ApplyFailure(s) == [s EXCEPT !.Status = "down"]

\* Mutant of UpdateMin: the minimum is set by the first sample only.
UpdateMinFirstOnly(s, lat) ==
    IF s.MinLatency = F(-1) THEN [s EXCEPT !.MinLatency = lat] ELSE s

\* Update min/max
UpdateMin(s, lat) ==
    IF s.MinLatency = F(-1) \/ FLt(lat, s.MinLatency)
    THEN [s EXCEPT !.MinLatency = lat] ELSE s

\* Mutant of UpdateMax: the maximum is set by the first sample only.
UpdateMaxFirstOnly(s, lat) ==
    IF s.MaxLatency = F(-1) THEN [s EXCEPT !.MaxLatency = lat] ELSE s

UpdateMax(s, lat) ==
    IF FLt(s.MaxLatency, lat) THEN [s EXCEPT !.MaxLatency = lat] ELSE s

\* Mutant of UpdateAvg: the sum is divided by the packets sent.
UpdateAvgOverSent(s, lat) ==
    IF s.PacketsRecv = 1
    THEN [s EXCEPT !.AvgLatency = lat]
    ELSE [s EXCEPT !.AvgLatency =
            FDiv(FAdd(FMul(@, F(s.PacketsRecv - 1)), lat), F(s.PacketsSent))]

\* Calculate average latency (s.PacketsRecv is already incremented)
UpdateAvg(s, lat) ==
    IF s.PacketsRecv = 1
    THEN [s EXCEPT !.AvgLatency = lat]
    ELSE [s EXCEPT !.AvgLatency =
            FDiv(FAdd(FMul(@, F(s.PacketsRecv - 1)), lat), F(s.PacketsRecv))]

\* Mutant of UpdateJitter: the difference keeps its sign.
UpdateJitterSigned(s, lat, last) ==
    IF FLt(F(0), last)
    THEN [s EXCEPT !.Jitter =
            FAdd(FMul(@, <<9, 10>>), FMul(FSub(lat, last), <<1, 10>>))]
    ELSE s

\* Calculate jitter
HasBaseline(last) == FLt(F(0), last)

UpdateJitter(s, lat, last) ==
    IF HasBaseline(last)
    THEN LET d == FSub(lat, last)
             jitter == IF FLt(d, F(0)) THEN FNeg(d) ELSE d
         IN [s EXCEPT !.Jitter =
               FAdd(FMul(@, <<9, 10>>), FMul(jitter, <<1, 10>>))]
    ELSE s

\* Mutant of SuccessHead: the status is left as it was.
SuccessHeadKeepsStatus(s, lat, t) ==
    [s EXCEPT !.PacketsRecv = @ + 1, !.LastSeen = t, !.CurrentLatency = lat]

SuccessHead(s, lat, t) ==
    [s EXCEPT !.Status = "up", !.PacketsRecv = @ + 1,
              !.LastSeen = t, !.CurrentLatency = lat]

ApplySuccess(s, lat, last, t) ==
    UpdateJitter(UpdateAvg(UpdateMax(UpdateMin(SuccessHead(s, lat, t), lat), lat), lat),
                 lat, last)

\* Mutant of NextLastLatency: a failure clears the baseline.
NextLastLatencyReset(last, lat, failed) == IF failed THEN F(0) ELSE lat

\* lastLatency after the if/else on err
NextLastLatency(last, lat, failed) == IF failed THEN last ELSE lat

Update(t) ==
    /\ pc[t] = "update"
    /\ stats' = [stats EXCEPT ![Entry(t)] =
                   IF err[t] THEN ApplyFailure(@)
                   ELSE ApplySuccess(@, latency[t], lastLatency[t], now)]
    /\ lastLatency' = [lastLatency EXCEPT
                         ![t] = NextLastLatency(@, latency[t], err[t])]
    /\ pc' = [pc EXCEPT ![t] = "loss"]
    /\ UNCHANGED <<hosts, writer, readers, started, now, latency, err,
                   replyFrom, rpc, todo, result, committed, log>>

\* Mutant of UpdateLoss: the share of packets received, not lost.
UpdateLossDelivered(s) ==
    IF s.PacketsSent > 0
    THEN [s EXCEPT !.PacketLoss =
            FMul(FDiv(F(s.PacketsRecv), F(s.PacketsSent)), F(100))]
    ELSE s

\* Calculate packet loss
UpdateLoss(s) ==
    IF s.PacketsSent > 0
    THEN [s EXCEPT !.PacketLoss =
            FMul(FDiv(F(s.PacketsSent - s.PacketsRecv), F(s.PacketsSent)), F(100))]
    ELSE s

Loss(t) ==
    /\ pc[t] = "loss"
    /\ stats' = [stats EXCEPT ![Entry(t)] = UpdateLoss(@)]
    /\ pc' = [pc EXCEPT ![t] = "unlock"]
    /\ UNCHANGED <<hosts, writer, readers, started, now, latency, err,
                   lastLatency, replyFrom, rpc, todo, result, committed, log>>

\* m.mu.Unlock(); the loop goes back to wait for the next tick.
Outcome(t) == [task |-> t, ok |-> ~err[t], rtt |-> latency[t]]

\* Mutant of LoopNext: the loop is left when the probe failed.
LoopNextStopsOnError(failed) == IF failed THEN "off" ELSE "tick"

\* for range ticker.C: after the body the loop waits for the next tick,
\* whatever err was
LoopNext(failed) == "tick"

\* Mutant of Released: the write lock is kept.
ReleasedNever(t) == t

\* the holder of the write lock once task t has called m.mu.Unlock()
Released(t) == 0

Unlock(t) ==
    /\ pc[t] = "unlock"
    /\ writer' = Released(t)
    /\ pc' = [pc EXCEPT ![t] = LoopNext(err[t])]
    /\ committed' = [committed EXCEPT ![hosts[t]] = stats[hosts[t]]]
    /\ log' = [log EXCEPT ![hosts[t]] = Append(@, Outcome(t))]
    /\ UNCHANGED <<hosts, stats, readers, started, now, latency, err,
                   lastLatency, replyFrom, rpc, todo, result>>

\* ------------------------------------------------------------- GetStats
\* Mutant of CanRLock: the read lock does not wait for the writer.
CanRLockAlways == TRUE

\* The zero PingStats value.
ZeroStats ==
    [Host |-> "", Status |-> "", LastSeen |-> 0,
     PacketsSent |-> 0, PacketsRecv |-> 0, PacketLoss |-> F(0),
     AvgLatency |-> F(0), MinLatency |-> F(0), MaxLatency |-> F(0),
     CurrentLatency |-> F(0), Jitter |-> F(0)]

\* Mutant of MakeResult: make([]PingStats, n), a slice of n zero records.
MakeResultWithLen(n) == [i \in 1..n |-> ZeroStats]

\* make([]PingStats, 0, len(m.stats)): an empty slice with capacity n
MakeResult(n) == <<>>

\* m.mu.RLock(); result := make([]PingStats, 0, len(m.stats))
CanRLock == writer = 0

RLock(r) ==
    /\ started
    /\ rpc[r] = "idle"
    /\ CanRLock
    /\ readers' = readers \cup {r}
    /\ result' = [result EXCEPT ![r] = MakeResult(Cardinality(DOMAIN stats))]
    /\ todo' = [todo EXCEPT ![r] = DOMAIN stats]
    /\ rpc' = [rpc EXCEPT ![r] = "copy"]
    /\ UNCHANGED <<hosts, stats, writer, started, now, pc, latency, err,
                   lastLatency, replyFrom, committed, log>>

\* one iteration of: for _, stats := range m.stats { result = append(result, *stats) }
AppendCopy(res, s) == Append(res, s)

Copy(r) ==
    /\ rpc[r] = "copy"
    /\ \E h \in todo[r] :
         /\ result' = [result EXCEPT ![r] = AppendCopy(@, stats[h])]
         /\ todo' = [todo EXCEPT ![r] = @ \ {h}]
         /\ rpc' = [rpc EXCEPT ![r] = IF todo[r] = {h} THEN "return" ELSE "copy"]
    /\ UNCHANGED <<hosts, stats, writer, readers, started, now, pc, latency,
                   err, lastLatency, replyFrom, committed, log>>

\* return result, with the deferred m.mu.RUnlock()
RUnlock(r) ==
    /\ rpc[r] = "return"
    /\ readers' = readers \ {r}
    /\ rpc' = [rpc EXCEPT ![r] = "done"]
    /\ UNCHANGED <<hosts, stats, writer, started, now, pc, latency, err,
                   lastLatency, replyFrom, todo, result, committed, log>>

\* ------------------------------------------------------------- ServeHTTP
\* json.NewEncoder(w).Encode(m.GetStats()): the response is written.
ServeHTTP(r) ==
    /\ rpc[r] = "done"
    /\ rpc' = [rpc EXCEPT ![r] = "idle"]
    /\ result' = [result EXCEPT ![r] = <<>>]
    /\ UNCHANGED <<hosts, stats, writer, readers, started, now, pc, latency,
                   err, lastLatency, replyFrom, todo, committed, log>>

\* ------------------------------------------------------------- specification
Next ==
    \/ Start
    \/ \E t \in Tasks : Tick(t)
    \/ \E t \in Tasks : Ping(t)
    \/ \E t \in Tasks : ReadFrom(t)
    \/ \E t \in Tasks : Lock(t)
    \/ \E t \in Tasks : Sent(t)
    \/ \E t \in Tasks : Update(t)
    \/ \E t \in Tasks : Loss(t)
    \/ \E t \in Tasks : Unlock(t)
    \/ \E r \in Readers : RLock(r)
    \/ \E r \in Readers : Copy(r)
    \/ \E r \in Readers : RUnlock(r)
    \/ \E r \in Readers : ServeHTTP(r)

Spec == Init /\ [][Next]_vars

\* The specification for progress: the host lists without a repeated
\* identifier and one round-trip time (progress does not depend on the
\* latency values, only on whether a probe fails).
TaskIds == UNION {DOMAIN l : l \in HostLists}

FairInit == Init /\ Cardinality(Range(hosts)) = Len(hosts)

FairRTTs == {40}

\* The steps of task t that nothing blocks: a ticker that fires, a probe that
\* returns within its deadline, the statements of the critical section.
TaskStep(t) ==
    /\ t \in Tasks
    /\ \/ Tick(t) \/ Ping(t) \/ ReadFromIn(t, FairRTTs)
       \/ Sent(t) \/ Update(t) \/ Loss(t) \/ Unlock(t)

\* Task t takes the write lock.
TaskLock(t) == t \in Tasks /\ Lock(t)

\* A GetStats call that holds the read lock runs to its return.
ReaderStep(r) == Copy(r) \/ RUnlock(r)

FairNext ==
    \/ Start
    \/ \E t \in TaskIds : TaskStep(t)
    \/ \E t \in TaskIds : TaskLock(t)
    \/ \E r \in Readers : RLock(r)
    \/ \E r \in Readers : ReaderStep(r)
    \/ \E r \in Readers : ServeHTTP(r)

\* Fair scheduling: every goroutine that can run does run, and a task
\* waiting at m.mu.Lock() gets the lock if it is free again and again
\* (sync.RWMutex does not let readers starve a waiting writer).
FairSpec ==
    /\ FairInit /\ [][FairNext]_vars
    /\ WF_vars(Start)
    /\ \A t \in TaskIds : WF_vars(TaskStep(t)) /\ SF_vars(TaskLock(t))
    /\ \A r \in Readers : WF_vars(ReaderStep(r))

\* ------------------------------------------------------------- history views
\* The tasks started for host h.
TasksOf(h) == {t \in Tasks : hosts[t] = h}

\* No Apply for h is part-way through: the write lock is free, or held for
\* another host, or its holder has run every statement of the critical section.
Settled(h) == writer = 0 \/ hosts[writer] # h \/ pc[writer] = "unlock"

\* The outcomes applied to h, the one whose Apply has just finished included.
AppliedLog(h) ==
    IF writer # 0 /\ hosts[writer] = h /\ pc[writer] = "unlock"
    THEN Append(log[h], Outcome(writer)) ELSE log[h]

\* The records held by GetStats callers.
Snapshots == UNION {Range(result[r]) : r \in Readers}

Successes(l) == SelectSeq(l, LAMBDA o : o.ok)

RECURSIVE SumRtt(_)
SumRtt(l) == IF l = <<>> THEN F(0) ELSE FAdd(Head(l).rtt, SumRtt(Tail(l)))

\* ------------------------------------------------------------- claims
\* C1: in every reachable state and for every host packetsReceived <=
\* packetsSent, also in every record a GetStats call holds or has returned.
C1_RecvLeSent ==
    /\ \A h \in DOMAIN stats : stats[h].PacketsRecv <= stats[h].PacketsSent
    /\ \A s \in Snapshots : s.PacketsRecv <= s.PacketsSent

C1_Witness ==
    /\ \E h \in DOMAIN stats :
         stats[h].PacketsRecv >= 1 /\ stats[h].PacketsRecv < stats[h].PacketsSent
    /\ \E s \in Snapshots : s.PacketsRecv >= 1 /\ s.PacketsSent >= 2

\* C2: a record copied by GetStats is never torn: while the caller holds the
\* read lock every record it has copied equals the host's record as left by
\* the last complete Apply (or by NewMonitor), all fields together.
C2_NoTornRead ==
    \A r \in Readers :
        rpc[r] \in {"copy", "return"} =>
            \A i \in DOMAIN result[r] :
                result[r][i] = committed[result[r][i].Host]

C2_Witness ==
    \E r \in Readers :
        /\ rpc[r] = "return"
        /\ \E i \in DOMAIN result[r] : result[r][i].PacketsRecv >= 1
        /\ \E t \in Tasks : pc[t] = "lock"

\* Both extrema hold a sample (-1 is the unset sentinel).
ExtremaSet(s) == s.MinLatency # F(-1) /\ s.MaxLatency # F(-1)

LatencyOrdered(s) ==
    ExtremaSet(s) =>
        FLe(s.MinLatency, s.CurrentLatency) /\ FLe(s.CurrentLatency, s.MaxLatency)

\* C3: whenever both extrema are set, minLatency <= currentLatency <=
\* maxLatency, in every state and every snapshot, also after a Failure that
\* follows a Success.
C3_LatencyBetweenExtrema ==
    /\ \A h \in DOMAIN stats : LatencyOrdered(stats[h])
    /\ \A s \in Snapshots : LatencyOrdered(s)

C3_Witness ==
    \E h \in DOMAIN stats :
        /\ stats[h].Status = "down"
        /\ ExtremaSet(stats[h])
        /\ FLt(stats[h].MinLatency, stats[h].CurrentLatency)
        /\ stats[h].CurrentLatency = stats[h].MaxLatency

\* The stored loss is the exact quotient for the record's own counters.
LossExact(s) ==
    /\ s.PacketLoss[2] > 0
    /\ IF s.PacketsSent = 0 THEN s.PacketLoss = F(0)
       ELSE FMul(s.PacketLoss, F(s.PacketsSent))
                = F((s.PacketsSent - s.PacketsRecv) * 100)

\* C4: with N packets sent and R received, packetLossPercent * N =
\* (N - R) * 100, and packetLossPercent = 0 when N = 0; the value is always a
\* defined number. Stated of every record no Apply is part-way through, and
\* of every snapshot.
C4_PacketLossExact ==
    /\ \A h \in DOMAIN stats : Settled(h) => LossExact(stats[h])
    /\ \A s \in Snapshots : LossExact(s)

C4_Witness ==
    /\ \E h \in DOMAIN stats :
         /\ Settled(h)
         /\ stats[h].PacketsSent = 3
         /\ stats[h].PacketsRecv = 2
         /\ stats[h].PacketLoss = <<100, 3>>
    /\ \E h \in DOMAIN stats : stats[h].PacketsSent = 0

\* C5: after each Apply with at least one Success so far, avgLatency equals
\* the arithmetic mean of all successful round-trip times applied to the
\* host, wherever Failures lie in the sequence.
C5_AvgIsMean ==
    \A h \in DOMAIN stats :
        LET ok == Successes(AppliedLog(h)) IN
        (Settled(h) /\ Len(ok) >= 1) =>
            stats[h].AvgLatency = FDiv(SumRtt(ok), F(Len(ok)))

C5_Witness ==
    \E h \in DOMAIN stats :
        /\ Settled(h)
        /\ Len(AppliedLog(h)) = 3
        /\ AppliedLog(h)[1].ok /\ ~AppliedLog(h)[2].ok /\ AppliedLog(h)[3].ok
        /\ AppliedLog(h)[1].rtt # AppliedLog(h)[3].rtt
        /\ stats[h].AvgLatency = F(50)

\* C6: a Failure changes only packetsSent (+1), status (down) and
\* packetLossPercent: when its Apply has run, every other field of the record
\* is as it was when the lock was taken.
C6_FailureFrame ==
    \A t \in Tasks :
        (pc[t] = "unlock" /\ err[t]) =>
            LET before == committed[hosts[t]]
                after == stats[hosts[t]]
            IN after = [before EXCEPT !.PacketsSent = @ + 1,
                                      !.Status = "down",
                                      !.PacketLoss = after.PacketLoss]

C6_Witness ==
    \E t \in Tasks :
        /\ pc[t] = "unlock" /\ err[t]
        /\ committed[hosts[t]].Status = "up"
        /\ committed[hosts[t]].PacketsRecv >= 2
        /\ committed[hosts[t]].Jitter # F(0)
\* The exponential moving average step of the jitter rule.
JitterStep(j, rtt, prev) ==
    LET d == FSub(rtt, prev)
    IN FAdd(FMul(j, <<9, 10>>), FMul(IF FLt(d, F(0)) THEN FNeg(d) ELSE d, <<1, 10>>))

\* Task t has just applied a Success and the outcome applied to its host
\* before that was a Failure.
AfterFailure(t) ==
    /\ pc[t] = "unlock" /\ ~err[t]
    /\ log[hosts[t]] # <<>>
    /\ ~log[hosts[t]][Len(log[hosts[t]])].ok

\* C7 (as the claim states it): a Success applied directly after a Failure
\* leaves jitter unchanged. Stated of hosts with a single task.
C7_FailureResetsBaseline ==
    \A t \in Tasks :
        (TasksOf(hosts[t]) = {t} /\ AfterFailure(t)) =>
            stats[hosts[t]].Jitter = committed[hosts[t]].Jitter

\* The Successes task t has applied earlier.
OwnSuccesses(t) == SelectSeq(log[hosts[t]], LAMBDA o : o.ok /\ o.task = t)

\* C7 (amended): a Failure leaves the previous-latency baseline as it is. A
\* Success(rtt) applied directly after a Failure sets jitter to
\* jitter*0.9 + |rtt - prev|*0.1, prev being the latency of the last Success
\* the same task applied before the failure, whenever prev > 0; jitter is left
\* unchanged only when the task has applied no Success yet or its last one
\* had latency 0.
C7_BaselineSurvivesFailure ==
    \A t \in Tasks :
        AfterFailure(t) =>
            LET own == OwnSuccesses(t)
                before == committed[hosts[t]].Jitter
            IN stats[hosts[t]].Jitter =
                 IF own # <<>> /\ FLt(F(0), own[Len(own)].rtt)
                 THEN JitterStep(before, latency[t], own[Len(own)].rtt)
                 ELSE before

C7_Witness ==
    \E t \in Tasks :
        /\ AfterFailure(t)
        /\ TasksOf(hosts[t]) = {t}
        /\ OwnSuccesses(t) # <<>>
        /\ stats[hosts[t]].Jitter # committed[hosts[t]].Jitter

\* C8: the first Success applied to a host leaves jitter at 0; every later
\* Success(rtt) sets jitter to jitter*0.9 + |rtt - prev|*0.1 for the previous
\* successful latency prev >= 0 (prev = 0 included), and rtt becomes the
\* baseline. Stated of hosts with a single task.
C8_JitterRule ==
    \A t \in Tasks :
        (TasksOf(hosts[t]) = {t} /\ pc[t] = "unlock" /\ ~err[t]) =>
            LET ok == Successes(log[hosts[t]])
                before == committed[hosts[t]].Jitter
            IN /\ stats[hosts[t]].Jitter =
                    IF ok = <<>> THEN F(0)
                    ELSE JitterStep(before, latency[t], ok[Len(ok)].rtt)
               /\ lastLatency[t] = latency[t]

\* Task t has a probe in flight or an outcome not yet fully applied.
Busy(t) == pc[t] \in {"ping", "wait", "lock", "sent", "update", "loss", "unlock"}

\* C9: each host identifier has one writer task: of the tasks of one
\* identifier at most one is between issuing a probe and having applied its
\* outcome.
C9_OneWriterPerHost ==
    \A t1, t2 \in Tasks :
        (t1 # t2 /\ hosts[t1] = hosts[t2]) => ~(Busy(t1) /\ Busy(t2))

\* C10: the registry holds one entry per distinct configured identifier and
\* nothing else, in every state, and GetStats returns exactly one record for
\* each of them.
C10_MembershipFixed ==
    /\ DOMAIN stats = Range(hosts)
    /\ \A h \in DOMAIN stats : stats[h].Host = h
    /\ \A r \in Readers :
         rpc[r] = "done" =>
            /\ Len(result[r]) = Cardinality(Range(hosts))
            /\ {result[r][i].Host : i \in DOMAIN result[r]} = Range(hosts)

C10_Witness ==
    \E r \in Readers :
        /\ rpc[r] = "done"
        /\ Len(hosts) = 2
        /\ Len(result[r]) = 1
        /\ result[r][1].PacketsSent = 2
\* The last element of a non-empty sequence.
Last(l) == l[Len(l)]

\* C12: status is unknown exactly while packetsSent = 0; after an Apply it is
\* up if the outcome applied last was a Success and down if it was a Failure
\* (so it never returns to unknown); up implies packetsReceived >= 1 and
\* lastSeen set.
C12_StatusMachine ==
    \A h \in DOMAIN stats :
        Settled(h) =>
            LET s == stats[h]
                l == AppliedLog(h)
            IN /\ (s.Status = "unknown") <=> (s.PacketsSent = 0)
               /\ (s.PacketsSent = 0) <=> (l = <<>>)
               /\ l # <<>> => s.Status = IF Last(l).ok THEN "up" ELSE "down"
               /\ s.Status = "up" => (s.PacketsRecv >= 1 /\ s.LastSeen # 0)

C12_Witness ==
    \E h \in DOMAIN stats :
        /\ Settled(h)
        /\ Len(AppliedLog(h)) = 3
        /\ ~AppliedLog(h)[2].ok
        /\ stats[h].Status = "up"
        /\ stats[h].PacketsRecv = 1

\* Every outcome of a non-empty log is a Failure.
AllFailed(l) == l # <<>> /\ \A i \in DOMAIN l : ~l[i].ok

\* C13: while every probe of a host has failed, after each Apply the host is
\* down with packetsReceived = 0, packetLossPercent = 100, both extrema at
\* the sentinel -1 and lastSeen unset, and its tasks are still in their loops.
C13_AllProbesFail ==
    \A h \in DOMAIN stats :
        (Settled(h) /\ AllFailed(AppliedLog(h))) =>
            /\ stats[h].Status = "down"
            /\ stats[h].PacketsRecv = 0
            /\ stats[h].PacketsSent = Len(AppliedLog(h))
            /\ stats[h].PacketLoss = F(100)
            /\ stats[h].MinLatency = F(-1)
            /\ stats[h].MaxLatency = F(-1)
            /\ stats[h].LastSeen = 0
            /\ \A t \in TasksOf(h) : pc[t] # "off"

C13_Witness ==
    \E h \in DOMAIN stats :
        /\ Settled(h)
        /\ AllFailed(AppliedLog(h))
        /\ Len(AppliedLog(h)) = 3
        /\ \E t \in TasksOf(h) : pc[t] = "tick"

\* The least and the greatest round-trip time of a non-empty log of Successes.
MinRtt(l) ==
    LET R == {l[i].rtt : i \in DOMAIN l}
    IN CHOOSE x \in R : \A y \in R : FLe(x, y)

MaxRtt(l) ==
    LET R == {l[i].rtt : i \in DOMAIN l}
    IN CHOOSE x \in R : \A y \in R : FLe(y, x)

\* C17: after each Apply minLatency is the minimum and maxLatency the maximum
\* of the successful round-trip times applied so far; both are the sentinel
\* -1 exactly when packetsReceived = 0; an Apply never raises a set
\* minLatency nor lowers a set maxLatency.
C17_RunningExtrema ==
    \A h \in DOMAIN stats :
        Settled(h) =>
            LET s == stats[h]
                ok == Successes(AppliedLog(h))
            IN /\ (s.MinLatency = F(-1)) <=> (s.PacketsRecv = 0)
               /\ (s.MaxLatency = F(-1)) <=> (s.PacketsRecv = 0)
               /\ s.PacketsRecv = Len(ok)
               /\ ok # <<>> => (s.MinLatency = MinRtt(ok) /\ s.MaxLatency = MaxRtt(ok))
               /\ ExtremaSet(committed[h]) =>
                    /\ FLe(s.MinLatency, committed[h].MinLatency)
                    /\ FLe(committed[h].MaxLatency, s.MaxLatency)

C17_Witness ==
    \E h \in DOMAIN stats :
        /\ Settled(h)
        /\ Len(Successes(AppliedLog(h))) = 3
        /\ AppliedLog(h)[2].rtt = F(60)
        /\ AppliedLog(h)[3].rtt = F(40)
        /\ stats[h].MinLatency = F(0)
        /\ stats[h].MaxLatency = F(60)

\* C20: jitter >= 0 in every state; jitter = 0 while fewer than two Successes
\* have been applied; jitter <= maxLatency - minLatency whenever the extrema
\* are set.
C20_JitterBounded ==
    \A h \in DOMAIN stats :
        /\ FLe(F(0), stats[h].Jitter)
        /\ stats[h].PacketsRecv < 2 => stats[h].Jitter = F(0)
        /\ ExtremaSet(stats[h]) =>
              FLe(stats[h].Jitter, FSub(stats[h].MaxLatency, stats[h].MinLatency))

C20_Witness ==
    \E h \in DOMAIN stats :
        /\ stats[h].PacketsRecv = 3
        /\ FLt(F(0), stats[h].Jitter)
        /\ FLt(stats[h].Jitter, FSub(stats[h].MaxLatency, stats[h].MinLatency))
        /\ stats[h].Jitter # <<2, 1>>
\* Task t is inside the critical section of its Apply.
InCS(t) == pc[t] \in {"sent", "update", "loss", "unlock"}

\* C15 (as the claim states it): each host has its own lock, so an Apply for
\* host A that holds the lock does not exclude an Apply for another host B: B's
\* task, waiting at Lock with no reader active, can take its lock.
C15_PerHostLocks ==
    \A ta, tb \in Tasks :
        (hosts[ta] # hosts[tb] /\ writer = ta /\ pc[tb] = "lock" /\ readers = {})
            => ENABLED Lock(tb)

\* C15 (amended): all records are protected by the one reader/writer lock
\* m.mu of the Monitor. At most one task, whatever its host, is inside its
\* Apply critical section at a time, and while it is, the task of any other
\* host waiting at Lock cannot proceed.
C15_OneGlobalLock ==
    /\ \A ta, tb \in Tasks : (InCS(ta) /\ InCS(tb)) => ta = tb
    /\ \A t \in Tasks : InCS(t) <=> writer = t
    /\ \A ta, tb \in Tasks :
         (InCS(ta) /\ pc[tb] = "lock") => ~ENABLED Lock(tb)

C15_Witness ==
    \E ta, tb \in Tasks :
        /\ hosts[ta] # hosts[tb]
        /\ pc[ta] = "update"
        /\ pc[tb] = "lock"
        /\ readers = {}

\* Task t is in m.ping, its probe in flight.
Probing(t) == pc[t] \in {"ping", "wait"}

\* C16: no lock is held while a probe is in flight: a task in ping holds
\* neither side of m.mu, so while it waits a task of any other host at Lock
\* and a GetStats call can take the lock whenever no task is inside its
\* critical section (and, for the writer, no reader is active).
C16_NoLockWhileProbing ==
    /\ \A t \in Tasks : Probing(t) => writer # t
    /\ \A t, u \in Tasks :
         (Probing(t) /\ pc[u] = "lock" /\ readers = {}
            /\ \A v \in Tasks : ~InCS(v)) => ENABLED Lock(u)
    /\ \A t \in Tasks : \A r \in Readers :
         (Probing(t) /\ rpc[r] = "idle" /\ \A v \in Tasks : ~InCS(v))
            => ENABLED RLock(r)

C16_Witness ==
    \E t, u \in Tasks : \E r \in Readers :
        /\ hosts[t] # hosts[u]
        /\ Probing(t)
        /\ stats[hosts[t]].PacketsSent >= 1
        /\ pc[u] = "unlock"
        /\ rpc[r] = "done"
        /\ Len(result[r]) = 2

\* C18: the records of one GetStats call are the hosts' records at one
\* instant: while the call holds the read lock every record copied so far
\* equals the host's current record, and when the loop has ended the result
\* is exactly the current records of all hosts.
C18_SnapshotAtOneInstant ==
    \A r \in Readers :
        /\ rpc[r] \in {"copy", "return"} =>
              \A i \in DOMAIN result[r] :
                  result[r][i] = stats[result[r][i].Host]
        /\ rpc[r] = "return" =>
              Range(result[r]) = {stats[h] : h \in DOMAIN stats}

C18_Witness ==
    \E r \in Readers :
        /\ rpc[r] = "return"
        /\ Len(result[r]) = 2
        /\ \A i \in DOMAIN result[r] : result[r][i].PacketsSent >= 1
        /\ \E t \in Tasks : pc[t] = "lock"

\* C19: a step of host A's task leaves every field of every other host's
\* record unchanged, and the jitter baseline of every other task.
C19_OtherHostsUntouched ==
    [][\A t \in Tasks :
         (started /\ pc'[t] # pc[t]) =>
            /\ \A h \in DOMAIN stats : h # hosts[t] => stats'[h] = stats[h]
            /\ \A u \in Tasks : u # t => lastLatency'[u] = lastLatency[u]]_vars

C19_Witness ==
    /\ Len(hosts) = 2
    /\ hosts[1] # hosts[2]
    /\ pc[2] = "loss"
    /\ ~err[2]
    /\ stats[hosts[1]].PacketsRecv >= 1
    /\ FLt(F(0), lastLatency[1])
\* C14: a probe of host H reports Success only on a reply from H to its own
\* echo request; a reply elicited by another host's probe never makes it
\* succeed.
C14_OnlyOwnReply ==
    \A t \in Tasks :
        (pc[t] = "lock" /\ ~err[t]) => replyFrom[t] = hosts[t]
\* The probes counted so far, over all hosts.
SumSent(hs) ==
    Cardinality(UNION {{<<h, i>> : i \in 1..stats[h].PacketsSent} : h \in hs})

\* C11: a failed probe never stops a task's loop. Under fair scheduling of
\* ticks and of the lock, whatever probes fail and whatever readers and other
\* tasks do, every tick the clock of the model allows is taken and counted:
\* packetsSent reaches MaxTime (summed over the hosts, and on a single host
\* its own counter), with every task back in its loop waiting for a tick.
C11_LoopNeverStops ==
    <>[](/\ \A t \in Tasks : pc[t] = "tick"
         /\ SumSent(DOMAIN stats) = MaxTime)

C11_Witness ==
    \E h \in DOMAIN stats :
        /\ stats[h].PacketsSent = MaxTime
        /\ stats[h].PacketsRecv = 0
        /\ \E t \in TasksOf(h) : pc[t] = "tick"
        /\ \E r \in Readers : rpc[r] = "copy"

====
